---- MODULE Spec2Model ----
(***************************************************************************)
(* A model of Typista: the Hunspell-style checker (typista.ts), its        *)
(* BK-tree index (bktree.ts) and the SymSpell Damerau distance             *)
(* (damerauSymSpell.ts).                                                   *)
(*                                                                         *)
(* A JavaScript string is a sequence of one-character strings; indices in  *)
(* the source are 0-based and are read through At(s, i).                   *)
(***************************************************************************)
EXTENDS Integers, Sequences, FiniteSets, TLC

\* ------------------------------------------------------------------ bounds
\* Longest string given to damerauDistance.
MaxDamLen == 3
\* Entries the Damerau memoization cache holds before calls only repeat keys.
MaxDamCache == 2
\* Terms inserted into a stand-alone BkTree.
MaxTreeTerms == 3
\* Largest radius of a stand-alone query.
MaxRadius == 2
\* Longest string given to the ranking comparator on its own.
MaxCmpLen == 2

VARIABLES
    damerauCache,        \* damerauSymSpell.ts: the memoization cache, key -> distance
    baseChar1Costs,      \* damerauSymSpell.ts: module-level scratch row
    basePrevChar1Costs,  \* damerauSymSpell.ts: module-level scratch row
    damCall,             \* the last damerauDistance call and what it returned
    cmpCall,             \* the last comparator calls and what they returned
    bktree,              \* a BkTree (Typista.#bktree, or a stand-alone one), or null
    inserted,            \* the terms given to the BkTree so far
    ret,                 \* the last public call and what it returned
    pc,                  \* Typista: "new" before the constructor ran, then "ready" or "threw"
    input,               \* Typista: the constructor's arguments
    flags,               \* Typista.#flags
    compoundRules,       \* Typista.#compoundRules
    dictionaryTable,     \* Typista.#dictionaryTable, in key order
    suggestionCache,     \* Typista.#suggestionCache
    hist                 \* what the calls so far did (for the properties)

damVars == <<damerauCache, baseChar1Costs, basePrevChar1Costs, damCall>>
bkVars == <<bktree, inserted, ret>>
tyVars == <<pc, input, flags, compoundRules, dictionaryTable, suggestionCache, hist>>
vars == <<damerauCache, baseChar1Costs, basePrevChar1Costs, damCall, cmpCall,
          bktree, inserted, ret,
          pc, input, flags, compoundRules, dictionaryTable, suggestionCache, hist>>

\* #bktree: null until built, then the nodes of the tree.
NoTree == [built |-> FALSE, nodes |-> <<>>]
Built(nodes) == [built |-> TRUE, nodes |-> nodes]
None == [op |-> "none"]

\* ----------------------------------------------------------------- strings
Undefined == "undefined"
NULL_CHAR == "NUL"

\* The characters of words: two lower-case letters and an upper-case one.
Alphabet == {"a", "b", "A"}

\* UTF-16 code units, the order the relational operators of JS use on strings.
CodeUnit(c) ==
    CASE c = "A" -> 65
      [] c = "B" -> 66
      [] c = "a" -> 97
      [] c = "b" -> 98
      [] c = "c" -> 99
      [] c = " " -> 32
      [] OTHER -> 0

StringsUpTo(alpha, n) == UNION {[1..k -> alpha] : k \in 0..n}

\* s[i] of the source: undefined outside the string.
At(s, i) == IF i >= 0 /\ i < Len(s) THEN s[i + 1] ELSE Undefined

Range(seq) == {seq[k] : k \in 1..Len(seq)}

Min2(x, y) == IF x < y THEN x ELSE y
Max2(x, y) == IF x < y THEN y ELSE x

\* A typed array: its length, and the cells written so far (the others are 0).
NewArray(n) == [length |-> n, data |-> <<>>]
ReadCell(arr, j) == IF j + 1 \in DOMAIN arr.data THEN arr.data[j + 1] ELSE 0
WriteCell(arr, j, v) ==
    IF j >= arr.length THEN arr
    ELSE [arr EXCEPT !.data =
            [k \in 1..Max2(Len(arr.data), j + 1) |->
                IF k = j + 1 THEN v
                ELSE IF k \in DOMAIN arr.data THEN arr.data[k] ELSE 0]]

\* --------------------------------------------------- damerauSymSpell.ts
INITIAL_SIZE == 1000

RECURSIVE StripSuffix(_, _, _, _)
StripSuffix(chars1, chars2, len1, len2) ==
    IF len1 # 0 /\ At(chars1, len1 - 1) = At(chars2, len2 - 1)
    THEN StripSuffix(chars1, chars2, len1 - 1, len2 - 1)
    ELSE [len1 |-> len1, len2 |-> len2]

RECURSIVE StripPrefix(_, _, _, _)
StripPrefix(chars1, chars2, len1, start) ==
    IF start # len1 /\ At(chars1, start) = At(chars2, start)
    THEN StripPrefix(chars1, chars2, len1, start + 1)
    ELSE start

prefixSuffixPrep(chars1, chars2) ==
    LET suf == StripSuffix(chars1, chars2, Len(chars1), Len(chars2))
        start == StripPrefix(chars1, chars2, suf.len1, 0)
    IN  [len1 |-> suf.len1 - start, len2 |-> suf.len2 - start, start |-> start]

\* for (let i = 0; i < len2;) char1Costs[i] = ++i
RECURSIVE InitRow(_, _, _)
InitRow(arr, i, len2) ==
    IF i < len2 THEN InitRow(WriteCell(arr, i, i + 1), i + 1, len2) ELSE arr

\* The body of the inner loop over j, for the row of char1.
RECURSIVE distanceColumns(_, _, _)
distanceColumns(j, env, st) ==
    IF j >= env.len2 THEN st
    ELSE
        LET thisTransCost == st.nextTransCost
            nextTransCost == ReadCell(st.prevChar1Costs, j)
            diagonal == st.leftCharCost
            prevCosts == WriteCell(st.prevChar1Costs, j, diagonal)
            leftCharCost == ReadCell(st.char1Costs, j)
            prevChar2 == st.char2
            char2 == At(env.chars2, env.start + j)
            afterDeletion == IF st.aboveCharCost < diagonal
                             THEN st.aboveCharCost ELSE diagonal
            afterInsertion == IF leftCharCost < afterDeletion
                              THEN leftCharCost ELSE afterDeletion
            incremented == afterInsertion + 1
            transposed ==
                IF /\ env.i # 0
                   /\ j # 0
                   /\ env.char1 = prevChar2
                   /\ env.prevChar1 = char2
                   /\ thisTransCost + 1 < incremented
                THEN thisTransCost + 1
                ELSE incremented
            currentCost == IF env.char1 # char2 THEN transposed ELSE diagonal
        IN  distanceColumns(j + 1, env,
                [char2 |-> char2,
                 leftCharCost |-> leftCharCost,
                 aboveCharCost |-> currentCost,
                 nextTransCost |-> nextTransCost,
                 currentCost |-> currentCost,
                 char1Costs |-> WriteCell(st.char1Costs, j, currentCost),
                 prevChar1Costs |-> prevCosts])

\* The outer loop over i.
RECURSIVE distanceRows(_, _, _)
distanceRows(i, env, st) ==
    IF i >= env.len1 THEN st
    ELSE
        LET prevChar1 == st.char1
            char1 == At(env.chars1, env.start + i)
            row == distanceColumns(0,
                     [chars2 |-> env.chars2, start |-> env.start, len2 |-> env.len2,
                      i |-> i, char1 |-> char1, prevChar1 |-> prevChar1],
                     [char2 |-> NULL_CHAR,
                      leftCharCost |-> i,
                      aboveCharCost |-> i,
                      nextTransCost |-> 0,
                      currentCost |-> st.currentCost,
                      char1Costs |-> st.char1Costs,
                      prevChar1Costs |-> st.prevChar1Costs])
        IN  distanceRows(i + 1, env,
                [char1 |-> char1,
                 currentCost |-> row.currentCost,
                 char1Costs |-> row.char1Costs,
                 prevChar1Costs |-> row.prevChar1Costs])

\* Returns the cost and the two scratch rows as the call leaves them.
distanceInternal(chars1, chars2, len1, len2, start, char1Costs, prevChar1Costs) ==
    LET done == distanceRows(0,
                  [chars1 |-> chars1, chars2 |-> chars2, start |-> start,
                   len1 |-> len1, len2 |-> len2],
                  [char1 |-> NULL_CHAR,
                   currentCost |-> 0,
                   char1Costs |-> InitRow(char1Costs, 0, len2),
                   prevChar1Costs |-> prevChar1Costs])
    IN  [cost |-> done.currentCost,
         char1Costs |-> done.char1Costs,
         prevChar1Costs |-> done.prevChar1Costs]

\* The function memoize wraps: the distance, and the module's scratch rows after it.
\* The distance without the adjacent transposition: a transposition counts as two
\* substitutions.
RECURSIVE NoTranspositionFill(_, _, _)
NoTranspositionFill(a, b, row) ==
    IF a = <<>> THEN row[Len(b) + 1]
    ELSE LET RECURSIVE Row(_, _)
             Row(j, acc) ==
                IF j > Len(b) THEN acc
                ELSE Row(j + 1, Append(acc,
                        Min2(Min2(row[j + 1] + 1, acc[j] + 1),
                             row[j] + (IF Head(a) = b[j] THEN 0 ELSE 1))))
         IN  NoTranspositionFill(Tail(a), b, Row(1, <<row[1] + 1>>))

damerauComputeNoTransposition(str1, str2, base, basePrev) ==
    [cost |-> NoTranspositionFill(str1, str2, [j \in 1..(Len(str2) + 1) |-> j - 1]),
     char1Costs |-> base, prevChar1Costs |-> basePrev]

damerauCompute(str1, str2, base, basePrev) ==
    LET swap == Len(str1) > Len(str2)
        chars1 == IF swap THEN str2 ELSE str1
        chars2 == IF swap THEN str1 ELSE str2
        prep == prefixSuffixPrep(chars1, chars2)
        grow == prep.len2 > base.length
        costs == IF grow THEN NewArray(prep.len2) ELSE base
        prevCosts == IF grow THEN NewArray(prep.len2) ELSE basePrev
    IN  IF Len(chars1) = 0
        THEN [cost |-> Len(chars2), char1Costs |-> base, prevChar1Costs |-> basePrev]
        ELSE IF prep.len1 = 0
        THEN [cost |-> prep.len2, char1Costs |-> base, prevChar1Costs |-> basePrev]
        ELSE distanceInternal(chars1, chars2, prep.len1, prep.len2, prep.start,
                              costs, prevCosts)

\* utils.ts: the order of the relational operators on strings (code units).
RECURSIVE lexicographicalCompare(_, _)
lexicographicalCompare(a, b) ==
    IF a = <<>> /\ b = <<>> THEN 0
    ELSE IF a = <<>> THEN -1
    ELSE IF b = <<>> THEN 1
    ELSE IF CodeUnit(Head(a)) < CodeUnit(Head(b)) THEN -1
    ELSE IF CodeUnit(Head(a)) > CodeUnit(Head(b)) THEN 1
    ELSE lexicographicalCompare(Tail(a), Tail(b))

\* getKey of the memoized damerauDistance: the two strings, sorted, joined by NULL_CHAR.
damerauKey(str1, str2) ==
    IF lexicographicalCompare(str2, str1) < 0
    THEN str2 \o <<NULL_CHAR>> \o str1
    ELSE str1 \o <<NULL_CHAR>> \o str2

\* ------------------------------------------- reference distances (textbook)
\* Cell (i, j) of a (m+1) x (n+1) matrix kept row by row in a sequence.
Cell(mat, n, i, j) == mat[i * (n + 1) + j + 1]

SetMin(S) == CHOOSE x \in S : \A y \in S : x <= y

\* Optimal string alignment: a transposed pair is not edited again.
RECURSIVE OsaFill(_, _, _)
OsaFill(mat, a, b) ==
    LET m == Len(a)
        n == Len(b)
        c == Len(mat)
        i == c \div (n + 1)
        j == c % (n + 1)
        v == IF i = 0 THEN j
             ELSE IF j = 0 THEN i
             ELSE SetMin(
                    {Cell(mat, n, i - 1, j) + 1,
                     Cell(mat, n, i, j - 1) + 1,
                     Cell(mat, n, i - 1, j - 1) + (IF a[i] = b[j] THEN 0 ELSE 1)}
                    \cup
                    (IF i > 1 /\ j > 1 /\ a[i] = b[j - 1] /\ a[i - 1] = b[j]
                     THEN {Cell(mat, n, i - 2, j - 2) + 1} ELSE {}))
    IN  IF c = (m + 1) * (n + 1) THEN mat ELSE OsaFill(Append(mat, v), a, b)

OsaDistance(a, b) == Cell(OsaFill(<<>>, a, b), Len(b), Len(a), Len(b))

\* Unrestricted Damerau-Levenshtein (Lowrance and Wagner): the characters between
\* a transposed pair may be deleted or inserted.
RECURSIVE DlFill(_, _, _)
DlFill(mat, a, b) ==
    LET m == Len(a)
        n == Len(b)
        c == Len(mat)
        i == c \div (n + 1)
        j == c % (n + 1)
        v == IF i = 0 THEN j
             ELSE IF j = 0 THEN i
             ELSE SetMin(
                    {Cell(mat, n, i - 1, j) + 1,
                     Cell(mat, n, i, j - 1) + 1,
                     Cell(mat, n, i - 1, j - 1) + (IF a[i] = b[j] THEN 0 ELSE 1)}
                    \cup
                    {Cell(mat, n, k - 1, l - 1) + (i - k - 1) + 1 + (j - l - 1) :
                        <<k, l>> \in {p \in (1..(i - 1)) \X (1..(j - 1)) :
                                         a[p[1]] = b[j] /\ b[p[2]] = a[i]}})
    IN  IF c = (m + 1) * (n + 1) THEN mat ELSE DlFill(Append(mat, v), a, b)

DlDistance(a, b) == Cell(DlFill(<<>>, a, b), Len(b), Len(a), Len(b))

\* --------------------------------------------------------------- bktree.ts
\* levenshteinDistance of @std/text: insertions, deletions, substitutions.
RECURSIVE LevFill(_, _, _)
LevFill(mat, a, b) ==
    LET m == Len(a)
        n == Len(b)
        c == Len(mat)
        i == c \div (n + 1)
        j == c % (n + 1)
        v == IF i = 0 THEN j
             ELSE IF j = 0 THEN i
             ELSE Min2(Min2(Cell(mat, n, i - 1, j) + 1, Cell(mat, n, i, j - 1) + 1),
                       Cell(mat, n, i - 1, j - 1) + (IF a[i] = b[j] THEN 0 ELSE 1))
    IN  IF c = (m + 1) * (n + 1) THEN mat ELSE LevFill(Append(mat, v), a, b)

LevenshteinCompute(a, b) == Cell(LevFill(<<>>, a, b), Len(b), Len(a), Len(b))

levenshteinDistance(a, b) == LevenshteinCompute(a, b)

\* damerauDistance as the comparator sees it: the memoized function's value.
damerauDistance(str1, str2) ==
    damerauCompute(str1, str2, NewArray(INITIAL_SIZE), NewArray(INITIAL_SIZE)).cost

LowerChar(c) == IF c = "A" THEN "a" ELSE IF c = "B" THEN "b" ELSE c
UpperChar(c) == IF c = "a" THEN "A" ELSE IF c = "b" THEN "B" ELSE c

\* normalizers[0]: str.toLowerCase()
toLowerCase(str) == [i \in 1..Len(str) |-> LowerChar(str[i])]
toUpperCase(str) == [i \in 1..Len(str) |-> UpperChar(str[i])]

\* normalizers[1]: str.replaceAll(/(.)\1/gsu, '$1'): each matched pair of equal
\* characters, found left to right without overlap, becomes one character.
RECURSIVE collapsePairs(_)
collapsePairs(str) ==
    IF Len(str) < 2 THEN str
    ELSE IF str[1] = str[2]
    THEN <<str[1]>> \o collapsePairs(SubSeq(str, 3, Len(str)))
    ELSE <<str[1]>> \o collapsePairs(Tail(str))

\* The loop "prefer words that start with a substring of the query term".
RECURSIVE comparePrefix(_, _, _, _)
comparePrefix(queryTerm, a, b, i) ==
    IF i >= Min2(Len(a), Len(b)) THEN 0
    ELSE LET aeq == At(a, i) = At(queryTerm, i)
             beq == At(b, i) = At(queryTerm, i)
         IN  IF aeq /\ ~beq THEN -1
             ELSE IF ~aeq /\ beq THEN 1
             ELSE comparePrefix(queryTerm, a, b, i + 1)

\* A comparator that ranks by the Levenshtein distance where #compare ranks by
\* the Damerau distance.
compareLevenshtein(queryTerm, a, b) ==
    LET na1 == toLowerCase(a)
        nb1 == toLowerCase(b)
        nq1 == toLowerCase(queryTerm)
        na2 == collapsePairs(na1)
        nb2 == collapsePairs(nb1)
        nq2 == collapsePairs(nq1)
        byPrefix(prefix) == IF prefix # 0 THEN prefix ELSE lexicographicalCompare(a, b)
        byDistance2(diff) ==
            IF diff # 0 THEN diff ELSE byPrefix(comparePrefix(queryTerm, a, b, 0))
        byDistance1(diff) ==
            IF diff # 0 THEN diff
            ELSE byDistance2(levenshteinDistance(na2, nq2) - levenshteinDistance(nb2, nq2))
    IN  IF a = queryTerm THEN -1
        ELSE IF b = queryTerm THEN 1
        ELSE IF na1 = nq1 THEN -1
        ELSE IF nb1 = nq1 THEN 1
        ELSE IF na2 = nq2 THEN -1
        ELSE IF nb2 = nq2 THEN 1
        ELSE byDistance1(levenshteinDistance(na1, nq1) - levenshteinDistance(nb1, nq1))

\* BkTree.#compare(queryTerm)(a, b)
compare(queryTerm, a, b) ==
    LET na1 == toLowerCase(a)
        nb1 == toLowerCase(b)
        nq1 == toLowerCase(queryTerm)
        na2 == collapsePairs(na1)
        nb2 == collapsePairs(nb1)
        nq2 == collapsePairs(nq1)
        byPrefix(prefix) == IF prefix # 0 THEN prefix ELSE lexicographicalCompare(a, b)
        byDistance2(diff) ==
            IF diff # 0 THEN diff ELSE byPrefix(comparePrefix(queryTerm, a, b, 0))
        byDistance1(diff) ==
            IF diff # 0 THEN diff
            ELSE byDistance2(damerauDistance(na2, nq2) - damerauDistance(nb2, nq2))
    IN  IF a = queryTerm THEN -1
        ELSE IF b = queryTerm THEN 1
        ELSE IF na1 = nq1 THEN -1
        ELSE IF nb1 = nq1 THEN 1
        ELSE IF na2 = nq2 THEN -1
        ELSE IF nb2 = nq2 THEN 1
        ELSE byDistance1(damerauDistance(na1, nq1) - damerauDistance(nb1, nq1))

\* Array.prototype.sort as the runtime (V8) runs it on fewer than 64 elements:
\* the leading run is found (and reversed when strictly descending), the rest is
\* placed by binary insertion.
RECURSIVE RunLength(_, _, _, _)
RunLength(queryTerm, arr, idx, isDescending) ==
    IF idx > Len(arr) THEN idx - 1
    ELSE LET ends(order) ==
                 (isDescending /\ order >= 0) \/ (~isDescending /\ order < 0)
         IN  IF ends(compare(queryTerm, arr[idx], arr[idx - 1]))
             THEN idx - 1
             ELSE RunLength(queryTerm, arr, idx + 1, isDescending)

Reverse(seq) == [i \in 1..Len(seq) |-> seq[Len(seq) + 1 - i]]

RECURSIVE BinarySearch(_, _, _, _, _)
BinarySearch(queryTerm, arr, pivot, left, right) ==
    IF left >= right THEN left
    ELSE LET mid == left + ((right - left) \div 2)
         IN  IF compare(queryTerm, pivot, arr[mid + 1]) < 0
             THEN BinarySearch(queryTerm, arr, pivot, left, mid)
             ELSE BinarySearch(queryTerm, arr, pivot, mid + 1, right)

RECURSIVE BinaryInsertionSort(_, _, _)
BinaryInsertionSort(queryTerm, arr, start) ==
    IF start >= Len(arr) THEN arr
    ELSE LET pivot == arr[start + 1]
             placed(left) ==
                 SubSeq(arr, 1, left) \o <<pivot>> \o SubSeq(arr, left + 1, start)
                     \o SubSeq(arr, start + 2, Len(arr))
         IN  BinaryInsertionSort(queryTerm,
                 placed(BinarySearch(queryTerm, arr, pivot, 0, start)), start + 1)

sort(queryTerm, arr) ==
    IF Len(arr) < 2 THEN arr
    ELSE LET made(isDescending, run) ==
                 IF isDescending
                 THEN Reverse(SubSeq(arr, 1, run)) \o SubSeq(arr, run + 1, Len(arr))
                 ELSE arr
             from(isDescending, run) ==
                 BinaryInsertionSort(queryTerm, made(isDescending, run), run)
             runOf(isDescending) ==
                 from(isDescending, RunLength(queryTerm, arr, 3, isDescending))
         IN  runOf(compare(queryTerm, arr[2], arr[1]) < 0)

\* A BkTree is a function from node paths (the edge labels from the top) to the
\* node's root; an empty function is a tree whose root is null.
EmptyTree == [p \in {} |-> <<>>]

\* new BkTree([term]): a single node.
RECURSIVE BkInsert(_, _, _)
BkInsert(tree, path, term) ==
    LET dist == levenshteinDistance(tree[path], term)
        child == Append(path, dist)
    IN  IF child \notin DOMAIN tree THEN tree @@ (child :> term)
        ELSE IF tree[child] # term THEN BkInsert(tree, child, term)
        ELSE tree

\* An addWord that leaves a tree that has a root as it is.
BkAddWordRootOnly(tree, term) ==
    IF <<>> \notin DOMAIN tree THEN (<<>> :> term) ELSE tree

\* BkTree.addWord(term)
BkAddWord(tree, term) ==
    IF <<>> \notin DOMAIN tree THEN (<<>> :> term)
    ELSE BkInsert(tree, <<>>, term)

\* BkTree.addWords(terms)
RECURSIVE BkAddWords(_, _)
BkAddWords(tree, terms) ==
    IF terms = <<>> THEN tree
    ELSE BkAddWords(BkAddWord(tree, Head(terms)), Tail(terms))

\* new BkTree(words): the last word is the root, the others are added in order.
BkConstruct(words) ==
    IF words = <<>> THEN EmptyTree
    ELSE BkAddWords((<<>> :> words[Len(words)]), SubSeq(words, 1, Len(words) - 1))

\* BkTree.#query: the candidates in the order the traversal pushes them.
RECURSIVE BkQueryNode(_, _, _, _, _)
RECURSIVE BkQueryChildren(_, _, _, _, _, _, _)
\* A traversal that leaves out the child at the lowest edge label of the range.
BkQueryNodeNarrow(tree, path, queryTerm, maxDist, resultsData) ==
    LET dist == levenshteinDistance(tree[path], queryTerm)
        pushed == IF dist <= maxDist
                  THEN Append(resultsData, [text |-> tree[path], dist |-> dist])
                  ELSE resultsData
    IN  BkQueryChildren(tree, path, queryTerm, maxDist,
                        dist - maxDist + 1, dist + maxDist, pushed)

BkQueryNode(tree, path, queryTerm, maxDist, resultsData) ==
    LET dist == levenshteinDistance(tree[path], queryTerm)
        pushed == IF dist <= maxDist
                  THEN Append(resultsData, [text |-> tree[path], dist |-> dist])
                  ELSE resultsData
    IN  BkQueryChildren(tree, path, queryTerm, maxDist,
                        dist - maxDist, dist + maxDist, pushed)

BkQueryChildren(tree, path, queryTerm, maxDist, i, max, resultsData) ==
    IF i > max THEN resultsData
    ELSE LET child == Append(path, i)
         IN  BkQueryChildren(tree, path, queryTerm, maxDist, i + 1, max,
                IF i >= 0 /\ child \in DOMAIN tree
                THEN BkQueryNode(tree, child, queryTerm, maxDist, resultsData)
                ELSE resultsData)

BkQueryRaw(tree, queryTerm, maxDist) ==
    IF <<>> \notin DOMAIN tree THEN <<>>
    ELSE BkQueryNode(tree, <<>>, queryTerm, maxDist, <<>>)

\* BkTree.query(queryTerm, maxDist)
BkQuery(tree, queryTerm, maxDist) ==
    LET texts(raw) == [k \in 1..Len(raw) |-> raw[k].text]
    IN  sort(queryTerm, texts(BkQueryRaw(tree, queryTerm, maxDist)))

\* -------------------------------------------------------------- typista.ts
\* A token or text of the .aff and .dic files is a sequence of characters, like a
\* word; a field that is missing (undefined in the source) is UndefinedToken.
UndefinedToken == <<Undefined>>
Space == " "
Tab == "TAB"
Slash == "/"

tPFX == <<"P", "F", "X">>
tSFX == <<"S", "F", "X">>
tCOMPOUNDRULE == <<"C", "O", "M", "P", "O", "U", "N", "D", "R", "U", "L", "E">>
tREP == <<"R", "E", "P">>
tONLYINCOMPOUND == <<"O", "N", "L", "Y", "I", "N", "C", "O", "M", "P", "O", "U", "N", "D">>
tCOMPOUNDMIN == <<"C", "O", "M", "P", "O", "U", "N", "D", "M", "I", "N">>
tFLAG == <<"F", "L", "A", "G">>
tKEEPCASE == <<"K", "E", "E", "P", "C", "A", "S", "E">>
tNEEDAFFIX == <<"N", "E", "E", "D", "A", "F", "F", "I", "X">>
tLong == <<"l", "o", "n", "g">>
tNum == <<"n", "u", "m">>
tY == <<"Y">>
tZero == <<"0">>
tDot == <<".">>

\* parts[k] of the source (0-based): undefined past the end.
Part(parts, k) == IF k >= 0 /\ k < Len(parts) THEN parts[k + 1] ELSE UndefinedToken

DigitValue(c) ==
    CASE c = "0" -> 0 [] c = "1" -> 1 [] c = "2" -> 2 [] c = "3" -> 3 [] c = "4" -> 4
      [] c = "5" -> 5 [] c = "6" -> 6 [] c = "7" -> 7 [] c = "8" -> 8 [] c = "9" -> 9
      [] OTHER -> -1

\* parseInt(token, 10): the leading digits, NaN when there are none.
RECURSIVE LeadingDigits(_, _)
LeadingDigits(token, acc) ==
    IF token = <<>> \/ DigitValue(Head(token)) < 0 THEN acc
    ELSE LeadingDigits(Tail(token), acc * 10 + DigitValue(Head(token)))

parseInt(token) ==
    IF token = <<>> \/ DigitValue(Head(token)) < 0
    THEN [nan |-> TRUE, n |-> 0]
    ELSE [nan |-> FALSE, n |-> LeadingDigits(token, 0)]

\* Number(token): every character a digit, NaN otherwise ("" is 0).
toNumber(token) ==
    IF \A k \in 1..Len(token) : DigitValue(token[k]) >= 0
    THEN [nan |-> FALSE, n |-> LeadingDigits(token, 0)]
    ELSE [nan |-> TRUE, n |-> 0]

\* key in flags / flags[key]
HasFlagKey(fl, key) == key \in DOMAIN fl
FlagValue(fl, key) == IF key \in DOMAIN fl THEN fl[key] ELSE UndefinedToken
SetFlag(fl, key, value) == [k \in DOMAIN fl \cup {key} |-> IF k = key THEN value ELSE fl[k]]

\* Typista.#parseRuleCodes(textCodes)
RECURSIVE SplitPairs(_)
SplitPairs(text) ==
    IF text = <<>> THEN <<>>
    ELSE <<SubSeq(text, 1, Min2(2, Len(text)))>> \o SplitPairs(SubSeq(text, 3, Len(text)))

RECURSIVE SplitOn(_, _, _)
SplitOn(text, sep, current) ==
    IF text = <<>> THEN <<current>>
    ELSE IF Head(text) = sep THEN <<current>> \o SplitOn(Tail(text), sep, <<>>)
    ELSE SplitOn(Tail(text), sep, Append(current, Head(text)))

parseRuleCodes(textCodes, fl) ==
    IF textCodes = UndefinedToken \/ textCodes = <<>> THEN <<>>
    ELSE IF ~HasFlagKey(fl, tFLAG) THEN [k \in 1..Len(textCodes) |-> <<textCodes[k]>>]
    ELSE IF fl[tFLAG] = tLong THEN SplitPairs(textCodes)
    ELSE IF fl[tFLAG] = tNum THEN SplitOn(textCodes, ",", <<>>)
    ELSE [k \in 1..Len(textCodes) |-> <<textCodes[k]>>]

StartsWith(str, prefix) ==
    Len(prefix) <= Len(str) /\ SubSeq(str, 1, Len(prefix)) = prefix
EndsWith(str, suffix) ==
    Len(suffix) <= Len(str) /\ SubSeq(str, Len(str) - Len(suffix) + 1, Len(str)) = suffix
\* The 0-based index of the first occurrence of part in str, -1 when there is none.
IndexOf(str, part) ==
    LET at == {k \in 0..(Len(str) - Len(part)) : SubSeq(str, k + 1, k + Len(part)) = part}
    IN  IF at = {} THEN -1 ELSE SetMin(at)

\* One entry line of a PFX or SFX block: its AffixEntry. A pattern without
\* metacharacters is kept as its text, and NoPattern stands for no pattern.
NoPattern == [any |-> TRUE, text |-> <<>>]
Pattern(text) == [any |-> FALSE, text |-> text]

ParseAffixEntry(ruleType, lineParts, fl) ==
    LET charactersToRemove == Part(lineParts, 2)
        additionParts == SplitOn(Part(lineParts, 3), Slash, <<>>)
        charactersToAdd == IF additionParts[1] = tZero THEN <<>> ELSE additionParts[1]
        continuationClasses == parseRuleCodes(Part(additionParts, 1), fl)
        regexToMatch == Part(lineParts, 4)
    IN  [add |-> charactersToAdd,
         continuationClasses |-> continuationClasses,
         match |-> IF regexToMatch # tDot THEN Pattern(regexToMatch) ELSE NoPattern,
         remove |-> IF charactersToRemove # tZero
                    THEN (IF ruleType = tSFX \/ charactersToRemove # UndefinedToken
                          THEN Pattern(charactersToRemove) ELSE NoPattern)
                    ELSE NoPattern]

\* The entry lines i+1 .. i+numEntries of a block. Reading a line past the end of
\* the file, or the fourth field of a line that has fewer, throws a TypeError.
RECURSIVE ParseAffixEntries(_, _, _, _, _, _)
ParseAffixEntries(lines, j, jlen, ruleType, fl, entries) ==
    IF j >= jlen THEN [threw |-> FALSE, entries |-> entries]
    ELSE IF j >= Len(lines) THEN [threw |-> TRUE, entries |-> entries]
    ELSE IF Len(lines[j + 1]) < 4 THEN [threw |-> TRUE, entries |-> entries]
    ELSE ParseAffixEntries(lines, j + 1, jlen, ruleType, fl,
            Append(entries, ParseAffixEntry(ruleType, lines[j + 1], fl)))

\* The rule lines of a COMPOUNDRULE block: the second token of each.
RECURSIVE ParseCompoundRules(_, _, _, _)
ParseCompoundRules(lines, j, jlen, sources) ==
    IF j >= jlen THEN [threw |-> FALSE, sources |-> sources]
    ELSE IF j >= Len(lines) THEN [threw |-> TRUE, sources |-> sources]
    ELSE ParseCompoundRules(lines, j + 1, jlen, Append(sources, Part(lines[j + 1], 1)))

\* Typista.#removeAffixComments
IsAffixComment(line) == line # <<>> /\ line[1] # <<>> /\ line[1][1] = "#"

\* Typista.#parseAff: the loop over the lines, from line i (0-based) on. st holds
\* rules, compoundRuleSources, replacementTable and flags.
RECURSIVE parseAffFrom(_, _, _)
parseAffFrom(lines, i, st) ==
    IF i >= Len(lines) THEN st
    ELSE
        LET definitionParts == lines[i + 1]
            ruleType == Part(definitionParts, 0)
        IN  IF IsAffixComment(definitionParts) \/ definitionParts = <<>>
            THEN parseAffFrom(lines, i + 1, st)
            ELSE IF ruleType = tPFX \/ ruleType = tSFX
            THEN LET ruleCode == Part(definitionParts, 1)
                     combineable == Part(definitionParts, 2)
                     numEntries == parseInt(Part(definitionParts, 3))
                     block == IF numEntries.nan
                              THEN [threw |-> FALSE, entries |-> <<>>]
                              ELSE ParseAffixEntries(lines, i + 1, i + 1 + numEntries.n,
                                                     ruleType, st.flags, <<>>)
                     rule == [type |-> ruleType,
                              combineable |-> combineable = tY,
                              entries |-> block.entries]
                     next == [st EXCEPT !.rules =
                                [c \in DOMAIN st.rules \cup {ruleCode} |->
                                    IF c = ruleCode THEN rule ELSE st.rules[c]]]
                 IN  IF block.threw THEN [st EXCEPT !.threw = TRUE]
                     ELSE IF numEntries.nan THEN next
                     ELSE parseAffFrom(lines, i + numEntries.n + 1, next)
            ELSE IF ruleType = tCOMPOUNDRULE
            THEN LET numEntries == parseInt(Part(definitionParts, 1))
                     block == IF numEntries.nan
                              THEN [threw |-> FALSE, sources |-> st.compoundRuleSources]
                              ELSE ParseCompoundRules(lines, i + 1, i + 1 + numEntries.n,
                                                      st.compoundRuleSources)
                     next == [st EXCEPT !.compoundRuleSources = block.sources]
                 IN  IF block.threw THEN [st EXCEPT !.threw = TRUE]
                     ELSE IF numEntries.nan THEN next
                     ELSE parseAffFrom(lines, i + numEntries.n + 1, next)
            ELSE IF ruleType = tREP
            THEN parseAffFrom(lines, i + 1,
                    IF Len(definitionParts) = 3
                    THEN [st EXCEPT !.replacementTable =
                            Append(@, <<definitionParts[2], definitionParts[3]>>)]
                    ELSE st)
            ELSE parseAffFrom(lines, i + 1,
                    [st EXCEPT !.flags = SetFlag(@, ruleType, Part(definitionParts, 1))])

parseAff(lines, fl) ==
    parseAffFrom(lines, 0,
        [rules |-> <<>>, compoundRuleSources |-> <<>>, replacementTable |-> <<>>,
         flags |-> fl, threw |-> FALSE])

\* The dictionary table: the entries in key order (Object.keys), each a word and
\* its value, null or a list of flag groups.
NullFlags == [null |-> TRUE, groups |-> <<>>]
FlagGroups(groups) == [null |-> FALSE, groups |-> groups]

TableIndex(table, word) ==
    LET at == {k \in 1..Len(table) : table[k].word = word}
    IN  IF at = {} THEN 0 ELSE CHOOSE k \in at : TRUE
TableHas(table, word) == TableIndex(table, word) # 0
TableGet(table, word) == table[TableIndex(table, word)].flags
\* table[word] = value: an existing key keeps its place, a new key goes last.
TableSet(table, word, value) ==
    IF TableHas(table, word)
    THEN [table EXCEPT ![TableIndex(table, word)].flags = value]
    ELSE Append(table, [word |-> word, flags |-> value])
\* A delete that leaves the table as it is.
TableKeep(table, word) == table

\* delete table[word]
TableDelete(table, word) ==
    LET kept == {k \in 1..Len(table) : table[k].word # word}
        Nth[n \in 0..Len(table)] ==
            IF n = 0 THEN 0 ELSE SetMin({k \in kept : k > Nth[n - 1]} \cup {Len(table) + 1})
    IN  [n \in 1..Cardinality(kept) |-> table[Nth[n]]]
\* Object.keys(table)
TableWords(table) == [k \in 1..Len(table) |-> table[k].word]

\* The addWord of #parseDic.
dicAddWord(table, word, ruleList) ==
    LET present == IF TableHas(table, word) THEN table ELSE TableSet(table, word, NullFlags)
        old == TableGet(present, word)
    IN  IF Len(ruleList) > 0
        THEN TableSet(present, word,
                FlagGroups(Append(IF old.null THEN <<>> ELSE old.groups, ruleList)))
        ELSE present

RECURSIVE dicAddWords(_, _)
dicAddWords(table, words) ==
    IF words = <<>> THEN table
    ELSE dicAddWords(dicAddWord(table, Head(words), <<>>), Tail(words))

\* word.match(entry.match) and newWord.replace(entry.remove, '')
EntryMatches(word, type, entry) ==
    \/ entry.match.any
    \/ IF type = tSFX THEN EndsWith(word, entry.match.text)
       ELSE StartsWith(word, entry.match.text)

EntryRemove(word, type, entry) ==
    IF entry.remove.any \/ entry.remove.text = <<>> THEN word
    ELSE IF type = tSFX
    THEN (IF EndsWith(word, entry.remove.text)
          THEN SubSeq(word, 1, Len(word) - Len(entry.remove.text)) ELSE word)
    ELSE LET at == IndexOf(word, entry.remove.text)
         IN  IF at < 0 THEN word
             ELSE SubSeq(word, 1, at) \o SubSeq(word, at + Len(entry.remove.text) + 1, Len(word))

\* Typista.#applyRule(word, rule): the new words, the continuation classes of
\* each entry applied to the word it produced.
RECURSIVE applyRule(_, _, _)
RECURSIVE applyEntries(_, _, _, _, _)
RECURSIVE applyContinuations(_, _, _, _, _)
applyRule(word, rule, rules) == applyEntries(word, rule, rules, 1, <<>>)

applyEntries(word, rule, rules, i, newWords) ==
    IF i > Len(rule.entries) THEN newWords
    ELSE LET entry == rule.entries[i]
             removed == EntryRemove(word, rule.type, entry)
             newWord == IF rule.type = tSFX THEN removed \o entry.add
                        ELSE entry.add \o removed
         IN  IF EntryMatches(word, rule.type, entry)
             THEN applyEntries(word, rule, rules, i + 1,
                    applyContinuations(newWord, entry.continuationClasses, rules, 1,
                                       Append(newWords, newWord)))
             ELSE applyEntries(word, rule, rules, i + 1, newWords)

applyContinuations(newWord, classes, rules, j, newWords) ==
    IF j > Len(classes) THEN newWords
    ELSE applyContinuations(newWord, classes, rules, j + 1,
            IF classes[j] \in DOMAIN rules
            THEN newWords \o applyRule(newWord, rules[classes[j]], rules)
            ELSE newWords)

\* The loop of #parseDic over the codes k = j+1 .. of a line, for one new word of a
\* combineable rule: the opposite-type combineable rules applied to it.
\* A combination step that admits only what the entries of the second rule
\* produce, without their continuation classes.
RECURSIVE dicCombineDirect(_, _, _, _, _, _)
dicCombineDirect(table, newWord, rule, ruleCodesArray, k, rules) ==
    IF k > Len(ruleCodesArray) THEN table
    ELSE LET combineCode == ruleCodesArray[k]
             usable == /\ combineCode \in DOMAIN rules
                       /\ rules[combineCode].combineable
                       /\ rule.type # rules[combineCode].type
             direct(combineRule) ==
                 [combineRule EXCEPT !.entries =
                     [i \in 1..Len(@) |-> [@[i] EXCEPT !.continuationClasses = <<>>]]]
         IN  dicCombineDirect(
                IF usable
                THEN dicAddWords(table,
                        applyRule(newWord, direct(rules[combineCode]), rules))
                ELSE table,
                newWord, rule, ruleCodesArray, k + 1, rules)

RECURSIVE dicCombine(_, _, _, _, _, _)
dicCombine(table, newWord, rule, ruleCodesArray, k, rules) ==
    IF k > Len(ruleCodesArray) THEN table
    ELSE LET combineCode == ruleCodesArray[k]
             usable == /\ combineCode \in DOMAIN rules
                       /\ rules[combineCode].combineable
                       /\ rule.type # rules[combineCode].type
         IN  dicCombine(
                IF usable
                THEN dicAddWords(table, applyRule(newWord, rules[combineCode], rules))
                ELSE table,
                newWord, rule, ruleCodesArray, k + 1, rules)

RECURSIVE dicNewWords(_, _, _, _, _, _, _)
dicNewWords(table, newWords, ii, rule, ruleCodesArray, j, rules) ==
    IF ii > Len(newWords) THEN table
    ELSE LET added == dicAddWord(table, newWords[ii], <<>>)
         IN  dicNewWords(
                IF rule.combineable
                THEN dicCombine(added, newWords[ii], rule, ruleCodesArray, j + 1, rules)
                ELSE added,
                newWords, ii + 1, rule, ruleCodesArray, j, rules)

\* The loop over the rule codes of one line. st holds the table and compoundRuleCodes.
RECURSIVE dicCodes(_, _, _, _, _)
dicCodes(st, word, ruleCodesArray, j, rules) ==
    IF j > Len(ruleCodesArray) THEN st
    ELSE LET code == ruleCodesArray[j]
             table == IF code \in DOMAIN rules
                      THEN dicNewWords(st.table, applyRule(word, rules[code], rules), 1,
                                       rules[code], ruleCodesArray, j, rules)
                      ELSE st.table
             codes == IF code \in DOMAIN st.compoundRuleCodes
                      THEN [st.compoundRuleCodes EXCEPT ![code] = Append(@, word)]
                      ELSE st.compoundRuleCodes
         IN  dicCodes([table |-> table, compoundRuleCodes |-> codes],
                      word, ruleCodesArray, j + 1, rules)

IsWhitespace(c) == c = Space \/ c = Tab
RECURSIVE trimStart(_)
trimStart(str) == IF str # <<>> /\ IsWhitespace(Head(str)) THEN trimStart(Tail(str)) ELSE str
RECURSIVE trimEnd(_)
trimEnd(str) ==
    IF str # <<>> /\ IsWhitespace(str[Len(str)]) THEN trimEnd(SubSeq(str, 1, Len(str) - 1))
    ELSE str
trim(str) == trimEnd(trimStart(str))

\* Typista.#removeDicComments: a line that begins with a tab becomes empty.
removeDicComments(lines) ==
    [k \in 1..Len(lines) |->
        IF lines[k] # <<>> /\ lines[k][1] = Tab THEN <<>> ELSE lines[k]]

\* Typista.#parseDic: the loop over the lines from line i (0-based) on.
RECURSIVE parseDicFrom(_, _, _, _, _)
parseDicFrom(lines, i, st, rules, fl) ==
    IF i >= Len(lines) THEN st
    ELSE LET line == lines[i + 1]
             parts == SplitOn(line, Slash, <<>>)
             word == parts[1]
             ruleCodesArray == parseRuleCodes(parts[2], fl)
             admitted == FlagValue(fl, tNEEDAFFIX) = UndefinedToken
                            \/ FlagValue(fl, tNEEDAFFIX) \notin Range(ruleCodesArray)
         IN  IF line = <<>> THEN parseDicFrom(lines, i + 1, st, rules, fl)
             ELSE IF Len(parts) > 1
             THEN parseDicFrom(lines, i + 1,
                    dicCodes([st EXCEPT !.table =
                                IF admitted THEN dicAddWord(@, word, ruleCodesArray) ELSE @],
                             word, ruleCodesArray, 1, rules),
                    rules, fl)
             ELSE parseDicFrom(lines, i + 1,
                    [st EXCEPT !.table = dicAddWord(@, trim(word), <<>>)], rules, fl)

parseDic(lines, rules, fl, compoundRuleCodes) ==
    parseDicFrom(removeDicComments(lines), 1,
                 [table |-> <<>>, compoundRuleCodes |-> compoundRuleCodes], rules, fl)

\* #compoundRuleCodes: a function from the codes to the words that carry them.
CodeSet(codes, code) ==
    [c \in DOMAIN codes \cup {code} |-> IF c = code THEN <<>> ELSE codes[c]]

\* Typista.#setup, first loop: every character of every compound rule is a code.
\* A rule line without a second token left undefined in the sources, and reading
\* its length throws a TypeError.
RECURSIVE SeedCompoundCodes(_, _, _)
SeedCompoundCodes(sources, i, codes) ==
    IF i > Len(sources) THEN codes
    ELSE LET RECURSIVE Chars(_, _)
             Chars(j, acc) ==
                IF j > Len(sources[i]) THEN acc
                ELSE Chars(j + 1, CodeSet(acc, <<sources[i][j]>>))
         IN  SeedCompoundCodes(sources, i + 1, Chars(1, codes))

\* Typista.#setup, the clean-up loop: the codes no word carries are deleted.
UsedCodes(codes) == [c \in {k \in DOMAIN codes : Len(codes[k]) > 0} |-> codes[c]]

\* A compiled compound rule is the list of the items of its expression text: a
\* group "(w1|w2|..)" for a character that is a code, the character itself
\* otherwise.
RuleItems(ruleText, codes) ==
    [j \in 1..Len(ruleText) |->
        IF <<ruleText[j]>> \in DOMAIN codes
        THEN [group |-> TRUE, words |-> codes[<<ruleText[j]>>], char |-> ruleText[j]]
        ELSE [group |-> FALSE, words |-> <<>>, char |-> ruleText[j]]]

IsQuantifier(item) == ~item.group /\ item.char \in {"*", "?"}

\* new RegExp(expressionText, 'i') throws a SyntaxError when a quantifier has
\* nothing to repeat.
RegExpThrows(items) ==
    \E j \in 1..Len(items) :
        IsQuantifier(items[j]) /\ (j = 1 \/ IsQuantifier(items[j - 1]))

\* The positions a match of one item can end at, when it starts at position p
\* (0-based) of str; letters are compared without case (the 'i' flag).
ItemEnds(item, str, p) ==
    IF item.group
    THEN {p + Len(item.words[k]) : k \in
            {k \in 1..Len(item.words) :
                /\ p + Len(item.words[k]) <= Len(str)
                /\ toLowerCase(SubSeq(str, p + 1, p + Len(item.words[k])))
                     = toLowerCase(item.words[k])}}
    ELSE IF p < Len(str) /\ LowerChar(str[p + 1]) = LowerChar(item.char)
    THEN {p + 1} ELSE {}

RECURSIVE StarEnds(_, _, _)
StarEnds(item, str, from) ==
    LET more == from \cup UNION {ItemEnds(item, str, p) : p \in from}
    IN  IF more = from THEN from ELSE StarEnds(item, str, more)

\* The positions a match of the items k.. can end at, starting from one of from.
RECURSIVE RegExpEnds(_, _, _, _)
RegExpEnds(items, k, str, from) ==
    IF k > Len(items) \/ from = {} THEN from
    ELSE LET once == UNION {ItemEnds(items[k], str, p) : p \in from}
             quantifier == IF k < Len(items) /\ IsQuantifier(items[k + 1])
                           THEN items[k + 1].char ELSE ""
         IN  IF quantifier = "*"
             THEN RegExpEnds(items, k + 2, str, StarEnds(items[k], str, from))
             ELSE IF quantifier = "?"
             THEN RegExpEnds(items, k + 2, str, from \cup once)
             ELSE RegExpEnds(items, k + 1, str, once)

\* word.match(rule): the expression is not anchored, a match may start anywhere.
RegExpMatch(items, word) == RegExpEnds(items, 1, word, 0..Len(word)) # {}

\* Typista.#setup
setup(affData, wordsData, fl) ==
    LET codes(seeded, onlyInCompound) ==
            IF onlyInCompound # UndefinedToken
            THEN CodeSet(seeded, onlyInCompound) ELSE seeded
        made(aff, table, compiled) ==
            [threw |-> \/ aff.threw
                       \/ UndefinedToken \in Range(aff.compoundRuleSources)
                       \/ \E i \in 1..Len(compiled) : RegExpThrows(compiled[i]),
             rules |-> aff.rules,
             flags |-> aff.flags,
             dictionaryTable |-> table,
             compoundRules |-> compiled]
        compile(aff, table, used) ==
            made(aff, table,
                 [i \in 1..Len(aff.compoundRuleSources) |->
                     RuleItems(aff.compoundRuleSources[i], used)])
        withDic(aff, dic) == compile(aff, dic.table, UsedCodes(dic.compoundRuleCodes))
        withAff(aff) ==
            withDic(aff,
                    parseDic(wordsData, aff.rules, aff.flags,
                             codes(SeedCompoundCodes(aff.compoundRuleSources, 1, <<>>),
                                   FlagValue(aff.flags, tONLYINCOMPOUND))))
    IN  withAff(parseAff(affData, fl))

\* Array.prototype.concat.apply([], groups)
RECURSIVE Flatten(_)
Flatten(groups) == IF groups = <<>> THEN <<>> ELSE Head(groups) \o Flatten(Tail(groups))

\* Typista.#hasFlag(word, flag) and #hasFlag(word, flag, wordFlags)
hasFlagIn(fl, flag, wordFlags) ==
    HasFlagKey(fl, flag) /\ fl[flag] \in Range(wordFlags)

hasFlag(table, fl, word, flag) ==
    hasFlagIn(fl, flag,
              IF TableHas(table, word) /\ ~TableGet(table, word).null
              THEN Flatten(TableGet(table, word).groups) ELSE <<>>)

\* word.length >= flags.COMPOUNDMIN, the flag converted to a number
ReachesCompoundMin(fl, word) ==
    /\ FlagValue(fl, tCOMPOUNDMIN) # UndefinedToken
    /\ ~toNumber(fl[tCOMPOUNDMIN]).nan
    /\ Len(word) >= toNumber(fl[tCOMPOUNDMIN]).n

\* A checkExact that rejects a word when any of its flag groups holds the
\* ONLYINCOMPOUND flag.
checkExactEveryGroup(table, fl, rules, word) ==
    IF ~TableHas(table, word)
    THEN /\ ReachesCompoundMin(fl, word)
         /\ \E i \in 1..Len(rules) : RegExpMatch(rules[i], word)
    ELSE IF TableGet(table, word).null THEN TRUE
    ELSE \A k \in 1..Len(TableGet(table, word).groups) :
            ~hasFlagIn(fl, tONLYINCOMPOUND, TableGet(table, word).groups[k])

\* Typista.checkExact(word)
checkExact(table, fl, rules, word) ==
    IF ~TableHas(table, word)
    THEN /\ ReachesCompoundMin(fl, word)
         /\ \E i \in 1..Len(rules) : RegExpMatch(rules[i], word)
    ELSE IF TableGet(table, word).null THEN TRUE
    ELSE \E k \in 1..Len(TableGet(table, word).groups) :
            ~hasFlagIn(fl, tONLYINCOMPOUND, TableGet(table, word).groups[k])

\* trimmedWord[0] + trimmedWord.slice(1).toLowerCase(); trimmedWord[0] of the
\* empty string is undefined, and the sum is then the text "undefined".
UndefinedText == <<"u", "n", "d", "e", "f", "i", "n", "e", "d">>
Capitalized(trimmedWord) ==
    IF trimmedWord = <<>> THEN UndefinedText
    ELSE <<Head(trimmedWord)>> \o toLowerCase(Tail(trimmedWord))

\* Typista.check(word): what it returns, or that it threw (toLowerCase of the
\* undefined first character of an empty trimmed word is a TypeError).
Returned(value) == [threw |-> FALSE, value |-> value]
Threw == [threw |-> TRUE, value |-> FALSE]

check(table, fl, rules, word) ==
    LET trimmedWord == trim(word)
        capitalizedWord == Capitalized(trimmedWord)
        uncapitalizedWord == <<LowerChar(Head(trimmedWord))>> \o Tail(trimmedWord)
        lowerCase ==
            IF trimmedWord = <<>> THEN Threw
            ELSE IF uncapitalizedWord # trimmedWord
            THEN (IF hasFlag(table, fl, uncapitalizedWord, tKEEPCASE) THEN Returned(FALSE)
                  ELSE Returned(checkExact(table, fl, rules, uncapitalizedWord)))
            ELSE Returned(FALSE)
    IN  IF word = <<>> THEN Returned(FALSE)
        ELSE IF checkExact(table, fl, rules, trimmedWord) THEN Returned(TRUE)
        ELSE IF toUpperCase(trimmedWord) = trimmedWord
        THEN (IF hasFlag(table, fl, capitalizedWord, tKEEPCASE) THEN Returned(FALSE)
              ELSE IF checkExact(table, fl, rules, capitalizedWord) THEN Returned(TRUE)
              ELSE IF checkExact(table, fl, rules, toLowerCase(trimmedWord))
              THEN Returned(TRUE)
              ELSE lowerCase)
        ELSE lowerCase

\* A number of the suggest options: a fraction n/d, NaN or Infinity; absent when
\* the option is not given.
Absent == [kind |-> "absent", n |-> 0, d |-> 1]
Num(n) == [kind |-> "number", n |-> n, d |-> 1]
Fraction(n, d) == [kind |-> "number", n |-> n, d |-> d]
NaN == [kind |-> "NaN", n |-> 0, d |-> 1]
Infinity == [kind |-> "Infinity", n |-> 0, d |-> 1]
JsonNull == [kind |-> "null", n |-> 0, d |-> 1]

NoOptions == [given |-> FALSE, maxDist |-> Absent, limit |-> Absent]
Options(maxDist, limit) == [given |-> TRUE, maxDist |-> maxDist, limit |-> limit]

defaultSuggestOptions == [maxDist |-> Fraction(1, 5), limit |-> Absent]

\* { ...defaultSuggestOptions, ...options }
MergeOptions(options) ==
    [maxDist |-> IF options.maxDist.kind # "absent" THEN options.maxDist
                 ELSE defaultSuggestOptions.maxDist,
     limit |-> IF options.limit.kind # "absent" THEN options.limit
               ELSE defaultSuggestOptions.limit]

\* Math.ceil(length * maxDist) for a fraction below 1
CeilTimes(length, maxDist) == (length * maxDist.n + maxDist.d - 1) \div maxDist.d

\* The radius suggest queries with (maxDist is a number of the model: a fraction
\* n/d with n >= 0).
Radius(word, maxDist) ==
    IF Len(word) = 1 THEN 1
    ELSE IF maxDist.n < maxDist.d
    THEN Min2(Len(word) - 1, CeilTimes(Len(word), maxDist))
    ELSE maxDist.n \div maxDist.d

\* A slice that takes the entry at index limit as well.
SliceInclusive(array, limit) ==
    IF limit.kind = "absent" \/ limit.kind = "Infinity" THEN array
    ELSE IF limit.kind = "NaN" THEN <<>>
    ELSE IF limit.n >= 0 THEN SubSeq(array, 1, Min2(limit.n + 1, Len(array)))
    ELSE SubSeq(array, 1, Max2(Len(array) + limit.n, 0))

\* array.slice(0, limit ?? undefined)
Slice(array, limit) ==
    IF limit.kind = "absent" \/ limit.kind = "Infinity" THEN array
    ELSE IF limit.kind = "NaN" THEN <<>>
    ELSE IF limit.n >= 0 THEN SubSeq(array, 1, Min2(limit.n, Len(array)))
    ELSE SubSeq(array, 1, Max2(Len(array) + limit.n, 0))

\* Typista.#getBkTree: the tree, built from the words when there is none yet.
getBkTree(tree, table) ==
    IF tree.built THEN tree ELSE Built(BkConstruct(TableWords(table)))

\* A suggest that does not filter the candidates by the dictionary table.
suggestUnfiltered(tree, table, word, options) ==
    LET opts == MergeOptions(options)
    IN  IF Len(word) = 0 THEN <<>>
        ELSE Slice(BkQuery(getBkTree(tree, table).nodes, word,
                           Radius(word, opts.maxDist)),
                   opts.limit)

\* Typista.suggest(word, options), the method the constructor wraps.
suggest(tree, table, word, options) ==
    LET opts == MergeOptions(options)
    IN  IF Len(word) = 0 THEN <<>>
        ELSE Slice(SelectSeq(BkQuery(getBkTree(tree, table).nodes, word,
                                     Radius(word, opts.maxDist)),
                             LAMBDA x : TableHas(table, x)),
                   opts.limit)

\* JSON.stringify of a number: NaN and Infinity are written as null.
JsonNumber(v) == IF v.kind \in {"NaN", "Infinity"} THEN JsonNull ELSE v

\* getKey: JSON.stringify({ word, options }); an absent property is left out.
getKey(word, options) ==
    [word |-> word,
     options |-> [given |-> options.given,
                  maxDist |-> JsonNumber(options.maxDist),
                  limit |-> JsonNumber(options.limit)]]

\* ====================================================== damerauDistance calls
DamAlphabet == {"a", "b", "c", NULL_CHAR}
DamStrings == StringsUpTo(DamAlphabet, MaxDamLen)

DamIdle ==
    /\ damerauCache = <<>>
    /\ baseChar1Costs = NewArray(INITIAL_SIZE)
    /\ basePrevChar1Costs = NewArray(INITIAL_SIZE)
    /\ damCall = None

CmpIdle == cmpCall = None

BkIdle ==
    /\ bktree = NoTree
    /\ inserted = {}
    /\ ret = None

TyIdle ==
    /\ pc = "idle"
    /\ input = None
    /\ flags = <<>>
    /\ compoundRules = <<>>
    /\ dictionaryTable = <<>>
    /\ suggestionCache = <<>>
    /\ hist = None

\* The memoized damerauDistance(str1, str2), on a key the cache does not hold: the
\* function runs on the module's scratch rows and the result is cached.
DamerauMiss(str1, str2) ==
    LET key == damerauKey(str1, str2)
        run == damerauCompute(str1, str2, baseChar1Costs, basePrevChar1Costs)
    IN  /\ Cardinality(DOMAIN damerauCache) < MaxDamCache
        /\ key \notin DOMAIN damerauCache
        /\ damCall' = [op |-> "damerauDistance", str1 |-> str1, str2 |-> str2,
                       hit |-> FALSE, result |-> run.cost]
        /\ damerauCache' = damerauCache @@ (key :> run.cost)
        /\ baseChar1Costs' = run.char1Costs
        /\ basePrevChar1Costs' = run.prevChar1Costs
        /\ UNCHANGED <<cmpCall, bkVars, tyVars>>

\* The pairs of strings whose two orders can give the key.
KeySplits(key) ==
    {<<SubSeq(key, 1, k - 1), SubSeq(key, k + 1, Len(key))>> :
        k \in {n \in 1..Len(key) : key[n] = NULL_CHAR}}

\* The memoized damerauDistance(str1, str2), on a key the cache holds: the cached
\* value is returned and the function does not run.
DamerauHit(str1, str2) ==
    LET key == damerauKey(str1, str2)
    IN  /\ key \in DOMAIN damerauCache
        /\ damCall' = [op |-> "damerauDistance", str1 |-> str1, str2 |-> str2,
                       hit |-> TRUE, result |-> damerauCache[key]]
        /\ UNCHANGED <<damerauCache, baseChar1Costs, basePrevChar1Costs>>
        /\ UNCHANGED <<cmpCall, bkVars, tyVars>>

\* The calls after which a further key is computed: they leave the scratch rows
\* written over their whole length, or not written at all.
DamPrimers == {damerauKey(<<"a", "b", "c">>, <<"c", "a", "b">>),
               damerauKey(<<"c", "a">>, <<"a", "b", "c">>),
               damerauKey(<<"a">>, <<"a">>)}

DamInit == DamIdle /\ CmpIdle /\ BkIdle /\ TyIdle
DamNext ==
    \/ /\ Cardinality(DOMAIN damerauCache) < MaxDamCache
       /\ DOMAIN damerauCache \subseteq DamPrimers
       /\ \E str1 \in DamStrings, str2 \in DamStrings : DamerauMiss(str1, str2)
    \/ \E key \in DOMAIN damerauCache : \E pair \in KeySplits(key) :
          \/ DamerauHit(pair[1], pair[2])
          \/ DamerauHit(pair[2], pair[1])
SpecDam == DamInit /\ [][DamNext]_vars

NoNul(str) == NULL_CHAR \notin Range(str)

CmpStrings == StringsUpTo(Alphabet, MaxCmpLen)

\* A query and three candidates the comparator of the query is about to see.
CmpArgs == [op : {"args"}, q : CmpStrings, a : CmpStrings, b : CmpStrings,
            c : CmpStrings]

\* The comparator of one query applied to the pairs of three candidates.
CompareCall(q, a, b, c) ==
    /\ cmpCall' = [op |-> "compare", q |-> q, a |-> a, b |-> b, c |-> c,
                   ab |-> compare(q, a, b), ba |-> compare(q, b, a),
                   bc |-> compare(q, b, c), ac |-> compare(q, a, c)]
    /\ UNCHANGED <<damVars, bkVars, tyVars>>

CmpInit == DamIdle /\ cmpCall \in CmpArgs /\ BkIdle /\ TyIdle
CmpNext == /\ cmpCall.op = "args"
           /\ CompareCall(cmpCall.q, cmpCall.a, cmpCall.b, cmpCall.c)
SpecCmp == CmpInit /\ [][CmpNext]_vars

\* C7: for every query q the comparator is a total order on the candidates: of
\* compare(a, b) < 0 and compare(b, a) < 0 exactly one holds for distinct a and b,
\* and compare(a, b) < 0 and compare(b, c) < 0 imply compare(a, c) < 0.
C7_CompareIsTotalOrder ==
    cmpCall.op = "compare" =>
        /\ cmpCall.a # cmpCall.b => ((cmpCall.ab < 0) # (cmpCall.ba < 0))
        /\ (cmpCall.ab < 0 /\ cmpCall.bc < 0) => cmpCall.ac < 0

\* ====================================================== a stand-alone BkTree
w_ab == <<"a", "b">>
w_Ab == <<"A", "b">>
w_ba == <<"b", "a">>
w_b == <<"b">>
w_bb == <<"b", "b">>
w_Aa == <<"A", "a">>
w_aab == <<"a", "a", "b">>
w_bbb == <<"b", "b", "b">>

BkTerms == {w_ab, w_Ab, w_ba, w_b, w_bb, w_Aa, w_aab, w_bbb}
BkQueries == {w_ab, w_ba, w_Ab, <<>>}
BkWordLists == UNION {[1..k -> BkTerms] : k \in 0..2}


\* new BkTree(words)
BkNew(words) ==
    /\ ~bktree.built
    /\ bktree' = Built(BkConstruct(words))
    /\ inserted' = Range(words)
    /\ ret' = [op |-> "new"]
    /\ UNCHANGED <<damVars, cmpCall, tyVars>>

\* bkTree.addWord(term)
BkAdd(term) ==
    /\ bktree.built
    /\ Cardinality(DOMAIN bktree.nodes) < MaxTreeTerms
    /\ bktree' = Built(BkAddWord(bktree.nodes, term))
    /\ inserted' = inserted \cup {term}
    /\ ret' = [op |-> "addWord"]
    /\ UNCHANGED <<damVars, cmpCall, tyVars>>

\* bkTree.query(queryTerm, maxDist)
BkQueryCall(queryTerm, maxDist) ==
    /\ bktree.built
    /\ ret' = [op |-> "query", queryTerm |-> queryTerm, maxDist |-> maxDist,
               result |-> BkQuery(bktree.nodes, queryTerm, maxDist)]
    /\ UNCHANGED <<bktree, inserted>>
    /\ UNCHANGED <<damVars, cmpCall, tyVars>>

BkInit == DamIdle /\ CmpIdle /\ BkIdle /\ TyIdle
BkNext ==
    \/ \E words \in BkWordLists : BkNew(words)
    \/ \E term \in BkTerms : BkAdd(term)
    \/ \E queryTerm \in BkQueries, maxDist \in 0..MaxRadius :
          BkQueryCall(queryTerm, maxDist)
SpecBk == BkInit /\ [][BkNext]_vars

\* C6: query(q, r) returns exactly the inserted terms within Levenshtein
\* distance r of q, whatever constructor and addWord calls built the tree.
C6_QueryIsExact ==
    ret.op = "query" =>
        Range(ret.result)
            = {t \in inserted : levenshteinDistance(t, ret.queryTerm) <= ret.maxDist}

\* A query on a tree of depth two that returns some of its terms and not others.
C6_Witness ==
    /\ ret.op = "query"
    /\ \E path \in DOMAIN bktree.nodes : Len(path) >= 2
    /\ ret.result # <<>>
    /\ Range(ret.result) # inserted

\* a equals q, or normalizes (lower case, then doubled characters collapsed) to
\* what q normalizes to.
MatchesQuery(q, a) ==
    \/ a = q
    \/ toLowerCase(a) = toLowerCase(q)
    \/ collapsePairs(toLowerCase(a)) = collapsePairs(toLowerCase(q))

LowerDamerau(q, a) == damerauDistance(toLowerCase(a), toLowerCase(q))

\* C8: in a list that query(q, r) returns, of two candidates that neither equal q
\* nor normalize to what q normalizes to, the one with the lower Damerau distance
\* between its lower-case form and that of q comes first.
C8_LowerDamerauFirst ==
    ret.op = "query" =>
        \A i, j \in 1..Len(ret.result) :
            (/\ ~MatchesQuery(ret.queryTerm, ret.result[i])
             /\ ~MatchesQuery(ret.queryTerm, ret.result[j])
             /\ LowerDamerau(ret.queryTerm, ret.result[i])
                    < LowerDamerau(ret.queryTerm, ret.result[j]))
                => i < j

\* A returned list in which a candidate one adjacent transposition away from q
\* (Levenshtein distance 2) is followed by a candidate at Damerau distance 2.
C8_Witness ==
    /\ ret.op = "query"
    /\ \E i, j \in 1..Len(ret.result) :
        /\ i < j
        /\ ~MatchesQuery(ret.queryTerm, ret.result[i])
        /\ ~MatchesQuery(ret.queryTerm, ret.result[j])
        /\ LowerDamerau(ret.queryTerm, ret.result[i]) = 1
        /\ levenshteinDistance(ret.result[i], ret.queryTerm) = 2
        /\ LowerDamerau(ret.queryTerm, ret.result[j]) >= 2

\* ================================================================ a Typista
\* The largest number of entries the suggestion cache holds (1e4 in the source).
MaxCache == 2

\* What the calls so far did: the last call that wrote the table, the words
\* removed and not added again, and, around an addWord, the table and the tree
\* as they were before it; restored says that the last two writes were
\* addWord(w) and then removeWord(w).
NoHistory ==
    [call |-> None, removed |-> {}, restored |-> FALSE,
     before |-> [table |-> <<>>, tree |-> NoTree]]

TyNewState ==
    /\ pc = "new"
    /\ flags = <<>>
    /\ compoundRules = <<>>
    /\ dictionaryTable = <<>>
    /\ suggestionCache = <<>>
    /\ hist = NoHistory

\* new Typista(affData, dicData, options)
TyNew ==
    LET construct(made) ==
            /\ IF made.threw
               THEN /\ pc' = "threw"
                    /\ ret' = [op |-> "new", threw |-> TRUE]
                    /\ UNCHANGED <<flags, compoundRules, dictionaryTable>>
               ELSE /\ pc' = "ready"
                    /\ ret' = [op |-> "new", threw |-> FALSE]
                    /\ flags' = made.flags
                    /\ compoundRules' = made.compoundRules
                    /\ dictionaryTable' = made.dictionaryTable
    IN  /\ pc = "new"
        /\ construct(setup(input.aff, input.dic, input.flags))
        /\ hist' = [hist EXCEPT !.call = [op |-> "new"]]
        /\ UNCHANGED <<input, suggestionCache, bktree, inserted>>
        /\ UNCHANGED <<damVars, cmpCall>>

\* typista.addWord(word, flags): fl is null when no flags are given.
TyAddWord(word, fl) ==
    /\ pc = "ready"
    /\ dictionaryTable' = TableSet(dictionaryTable, word, fl)
    /\ bktree' = IF bktree.built THEN Built(BkAddWord(bktree.nodes, word)) ELSE bktree
    /\ suggestionCache' = <<>>
    /\ ret' = [op |-> "addWord", word |-> word]
    /\ hist' = [call |-> [op |-> "addWord", word |-> word, flags |-> fl],
                removed |-> hist.removed \ {word},
                restored |-> FALSE,
                before |-> [table |-> dictionaryTable, tree |-> bktree]]
    /\ UNCHANGED <<pc, input, flags, compoundRules, inserted>>
    /\ UNCHANGED <<damVars, cmpCall>>

\* typista.removeWord(word)
TyRemoveWord(word) ==
    /\ pc = "ready"
    /\ dictionaryTable' = TableDelete(dictionaryTable, word)
    /\ suggestionCache' = <<>>
    /\ ret' = [op |-> "removeWord", word |-> word]
    /\ hist' = LET undoes == /\ ret.op = "addWord"
                             /\ ret.word = word
               IN  [call |-> [op |-> "removeWord", word |-> word],
                    removed |-> hist.removed \cup {word},
                    restored |-> undoes,
                    before |-> IF undoes THEN hist.before
                               ELSE [table |-> <<>>, tree |-> NoTree]]
    /\ UNCHANGED <<pc, input, flags, compoundRules, bktree, inserted>>
    /\ UNCHANGED <<damVars, cmpCall>>

\* typista.initBkTree()
TyInitBkTree ==
    /\ pc = "ready"
    /\ bktree' = getBkTree(bktree, dictionaryTable)
    /\ ret' = [op |-> "initBkTree"]
    /\ UNCHANGED <<pc, input, flags, compoundRules, dictionaryTable, suggestionCache,
                   hist, inserted>>
    /\ UNCHANGED <<damVars, cmpCall>>

\* typista.suggest(word, options), the memoized function: a key the cache holds
\* returns the cached list, any other key runs suggest and caches what it returns.
TySuggest(word, options) ==
    LET key == getKey(word, options)
        hit == key \in DOMAIN suggestionCache
        return(result) ==
            /\ suggestionCache' = IF hit THEN suggestionCache
                                  ELSE suggestionCache @@ (key :> result)
            /\ ret' = [op |-> "suggest", word |-> word, options |-> options,
                       hit |-> hit, result |-> result]
    IN  /\ pc = "ready"
        /\ hit \/ Cardinality(DOMAIN suggestionCache) < MaxCache
        /\ return(IF hit THEN suggestionCache[key]
                  ELSE suggest(bktree, dictionaryTable, word, options))
        /\ bktree' = IF hit \/ Len(word) = 0 THEN bktree
                     ELSE getBkTree(bktree, dictionaryTable)
        /\ UNCHANGED <<pc, input, flags, compoundRules, dictionaryTable, hist, inserted>>
        /\ UNCHANGED <<damVars, cmpCall>>

\* typista.check(word)
TyCheck(word) ==
    /\ pc = "ready"
    /\ ret' = [op |-> "check", word |-> word,
               result |-> check(dictionaryTable, flags, compoundRules, word)]
    /\ UNCHANGED <<bktree, inserted, tyVars>>
    /\ UNCHANGED <<damVars, cmpCall>>

\* typista.checkExact(word)
TyCheckExact(word) ==
    /\ pc = "ready"
    /\ ret' = [op |-> "checkExact", word |-> word,
               result |-> checkExact(dictionaryTable, flags, compoundRules, word)]
    /\ UNCHANGED <<bktree, inserted, tyVars>>
    /\ UNCHANGED <<damVars, cmpCall>>

\* -------------------------------------------- a Typista that is asked to suggest
w_a == <<"a">>
EmptyAff == <<<<>>>>
NoFlags == <<>>
OneGroup == FlagGroups(<<<<"x">>>>)

\* The .dic files of the instances: the count line, then the words.
SuggestDics ==
    {<<<<"3">>, w_b, w_bb, w_a>>,
     <<<<"1">>, w_ab>>}
SuggestInputs == {[aff |-> EmptyAff, dic |-> dic, flags |-> NoFlags] : dic \in SuggestDics}

\* The calls made: the words added (one a key of the first dictionary, one of
\* neither) with and without flag groups, and the queries with their options.
SuggestAdds == {<<w_Aa, OneGroup>>, <<w_b, NullFlags>>}
SuggestRemoves == {w_Aa, w_b}
SuggestArgs ==
    {<<w_ab, NoOptions>>}
        \cup {<<w_ab, Options(Absent, limit)>> : limit \in {NaN, Infinity}}
        \cup {<<w_ab, Options(Num(2), limit)>> : limit \in {Num(1), Num(2)}}

Init ==
    /\ DamIdle /\ CmpIdle /\ BkIdle
    /\ TyNewState
    /\ input \in SuggestInputs
Next ==
    \/ TyNew
    \/ \E add \in SuggestAdds : TyAddWord(add[1], add[2])
    \/ \E word \in SuggestRemoves : TyRemoveWord(word)
    \/ TyInitBkTree
    \/ \E args \in SuggestArgs : TySuggest(args[1], args[2])
Spec == Init /\ [][Next]_vars

\* C1: after removeWord(w), and until addWord(w), no list that suggest returns
\* holds w, whether the tree was built before or after the removal.
C1_RemovedNeverSuggested ==
    ret.op = "suggest" => \A w \in hist.removed : w \notin Range(ret.result)

\* A suggest that ran on a tree which still holds a removed word within the radius
\* of the query.
C1_Witness ==
    /\ ret.op = "suggest"
    /\ ~ret.hit
    /\ ret.result # <<>>
    /\ \E w \in hist.removed :
          w \in Range(BkQuery(bktree.nodes, ret.word,
                              Radius(ret.word, MergeOptions(ret.options).maxDist)))

\* C2: the list the memoized suggest(q, opts) returns is the list the suggest
\* method computes on the current dictionary table and tree.
C2_MemoizedIsComputed ==
    ret.op = "suggest"
        => ret.result = suggest(bktree, dictionaryTable, ret.word, ret.options)

\* C4, for a word w that is not a key of the table: after addWord(w) and then
\* removeWord(w), suggest(q, opts) returns for every q and opts what it returned
\* before the addWord.
C4_AddRemoveRestores ==
    (hist.restored /\ ~TableHas(hist.before.table, hist.call.word)) =>
        \A args \in SuggestArgs :
            suggest(bktree, dictionaryTable, args[1], args[2])
                = suggest(hist.before.tree, hist.before.table, args[1], args[2])

IsCount(v) == v.kind = "number" /\ v.d = 1 /\ v.n >= 0
IsPrefix(s, t) == Len(s) <= Len(t) /\ SubSeq(t, 1, Len(s)) = s

cS == <<"S">>
cOnly == <<"c">>

\* .aff files, a line as its tokens: no rules; a suffix rule S that adds "b"; the
\* ONLYINCOMPOUND flag c with the compound rule xy; both; and a suffix rule whose
\* header counts one entry line more than the file holds.
AffSuffix ==
    <<<<tSFX, cS, tY, <<"1">>>>,
      <<tSFX, cS, tZero, <<"b">>, tDot>>>>
AffCompound ==
    <<<<tONLYINCOMPOUND, cOnly>>,
      <<tCOMPOUNDMIN, <<"1">>>>,
      <<tCOMPOUNDRULE, <<"1">>>>,
      <<tCOMPOUNDRULE, <<"x", "y">>>>>>
AffBoth == AffCompound \o AffSuffix
AffShort ==
    <<<<tSFX, cS, tY, <<"2">>>>,
      <<tSFX, cS, tZero, <<"b">>, tDot>>>>

\* .dic files, a line as its characters: a plain word; a word listed twice with
\* different flags; the two parts of a compound; two words that carry the
\* ONLYINCOMPOUND flag.
DicPlain == <<<<"1">>, w_ab>>
DicTwice == <<<<"2">>, <<"a", "b", "/", "c">>, <<"a", "b", "/", "S">>>>
DicParts == <<<<"2">>, <<"a", "/", "x">>, <<"b", "/", "y">>>>
DicOnly == <<<<"2">>, <<"a", "/", "c", "x">>, <<"A", "b", "/", "c">>>>

\* options.flags with the ONLYINCOMPOUND flag
OnlyFlags == (tONLYINCOMPOUND :> cOnly)

TypistaInput(aff, dic, fl) == [aff |-> aff, dic |-> dic, flags |-> fl]
CheckInputs ==
    {TypistaInput(EmptyAff, DicPlain, NoFlags),
     TypistaInput(AffSuffix, DicTwice, NoFlags),
     TypistaInput(AffSuffix, DicTwice, OnlyFlags),
     TypistaInput(AffBoth, DicTwice, NoFlags),
     TypistaInput(AffCompound, DicParts, NoFlags),
     TypistaInput(AffCompound, DicOnly, NoFlags),
     TypistaInput(EmptyAff, DicOnly, OnlyFlags),
     TypistaInput(AffShort, DicPlain, NoFlags)}

\* The words added, removed and checked: a capitalized word, the empty word and a
\* word with a leading space.
w_empty == <<>>
w_space_a == <<" ", "a">>
CheckWords == {w_Ab, w_empty, w_space_a}

CheckInit ==
    /\ DamIdle /\ CmpIdle /\ BkIdle
    /\ TyNewState
    /\ input \in CheckInputs
CheckNext ==
    \/ TyNew
    \/ \E word \in CheckWords : TyAddWord(word, NullFlags)
    \/ \E word \in CheckWords : TyRemoveWord(word)
    \/ \E word \in CheckWords : TyCheck(word)
    \/ \E word \in CheckWords : TyCheckExact(word)
SpecCheck == CheckInit /\ [][CheckNext]_vars

\* A word that check takes as it is: not empty, no whitespace at either end.
PlainWord(word) == word # <<>> /\ trim(word) = word

\* The last write of the table was addWord(word) without flags / removeWord(word).
JustAdded(word) ==
    /\ hist.call.op = "addWord"
    /\ hist.call.word = word
    /\ hist.call.flags.null
JustRemoved(word) ==
    /\ hist.call.op = "removeWord"
    /\ hist.call.word = word

\* No compound rule matches the word, and no capitalization variant of it (first
\* letter kept and the rest in lower case, all in lower case, first letter in
\* lower case) is a key of the table.
NoCompoundMatch(word) ==
    ~(/\ ReachesCompoundMin(flags, word)
      /\ \E i \in 1..Len(compoundRules) : RegExpMatch(compoundRules[i], word))
NoAlternative(word) ==
    /\ NoCompoundMatch(word)
    /\ \A variant \in {Capitalized(word), toLowerCase(word),
                       <<LowerChar(Head(word))>> \o Tail(word)} :
          ~TableHas(dictionaryTable, variant)

\* C3 (as amended): immediately after addWord(w) without flag groups,
\* checkExact(w) returns true, and so does check(w) when w is not empty and has no
\* whitespace at either end; immediately after removeWord(w), checkExact(w)
\* returns false when no compound rule matches w, and check(w) returns false when
\* w is such a word and has no alternative entry.
C3_AddedAcceptedRemovedRejected ==
    /\ (ret.op = "checkExact" /\ JustAdded(ret.word)) => ret.result
    /\ (ret.op = "check" /\ JustAdded(ret.word) /\ PlainWord(ret.word))
            => ret.result = Returned(TRUE)
    /\ (ret.op = "checkExact" /\ JustRemoved(ret.word) /\ NoCompoundMatch(ret.word))
            => ~ret.result
    /\ (ret.op = "check" /\ JustRemoved(ret.word) /\ PlainWord(ret.word)
            /\ NoAlternative(ret.word))
            => ret.result = Returned(FALSE)

\* check(w) accepts a word that addWord(w) has just made a key of the table.
C3_Witness ==
    /\ ret.op = "check"
    /\ JustAdded(ret.word)
    /\ PlainWord(ret.word)
    /\ ~TableHas(hist.before.table, ret.word)
    /\ ret.result = Returned(TRUE)

\* C3 as the specification states it, for every word w: immediately after
\* addWord(w) both check(w) and checkExact(w) return true, and immediately after
\* removeWord(w) both return false when w has no alternative entry.
C3_EveryWordAcceptedThenRejected ==
    /\ (ret.op = "checkExact" /\ JustAdded(ret.word)) => ret.result
    /\ (ret.op = "check" /\ JustAdded(ret.word)) => ret.result = Returned(TRUE)
    /\ (ret.op = "checkExact" /\ JustRemoved(ret.word) /\ NoCompoundMatch(ret.word))
            => ~ret.result
    /\ (ret.op = "check" /\ JustRemoved(ret.word) /\ ret.word # <<>>
            /\ NoAlternative(ret.word))
            => ret.result = Returned(FALSE)

\* The value of a key lets the word stand alone: it is null, or one of its flag
\* groups is without the ONLYINCOMPOUND flag.
StandsAlone(value) ==
    \/ value.null
    \/ \E k \in 1..Len(value.groups) :
          ~(HasFlagKey(flags, tONLYINCOMPOUND)
                /\ flags[tONLYINCOMPOUND] \in Range(value.groups[k]))

cKeep == <<"K">>
w_AB == <<"A", "B">>
w_space == <<" ">>

\* An .aff file with the KEEPCASE flag K, and .dic files with one word that
\* carries it, in lower case and capitalized.
AffKeepCase == <<<<tKEEPCASE, cKeep>>>>
DicKeepLower == <<<<"1">>, <<"a", "b", "/", "K">>>>
DicKeepCapital == <<<<"1">>, <<"A", "b", "/", "K">>>>
\* An .aff file with a combineable prefix rule P (adds "a") and a combineable
\* suffix rule S (adds "b") whose entry lists the continuation class T, a suffix
\* rule that adds "c"; and a .dic file whose word carries P and S.
cP == <<"P">>
cT == <<"T">>
AffCombine ==
    <<<<tPFX, cP, tY, <<"1">>>>,
      <<tPFX, cP, tZero, <<"a">>, tDot>>,
      <<tSFX, cS, tY, <<"1">>>>,
      <<tSFX, cS, tZero, <<"b", "/", "T">>, tDot>>,
      <<tSFX, cT, <<"N">>, <<"1">>>>,
      <<tSFX, cT, tZero, <<"c">>, tDot>>>>
DicCombine == <<<<"1">>, <<"b", "/", "P", "S">>>>
\* A .dic file that starts with a tab-indented comment line, then the count line.
DicCommentFirst == <<<<Tab, "x">>, <<"1">>, w_ab>>

AcceptInputs ==
    {TypistaInput(AffCompound, DicParts, NoFlags),
     TypistaInput(AffKeepCase, DicKeepLower, NoFlags),
     TypistaInput(AffKeepCase, DicKeepCapital, NoFlags),
     TypistaInput(EmptyAff, DicPlain, NoFlags),
     TypistaInput(EmptyAff, DicPlain, OnlyFlags),
     TypistaInput(EmptyAff, DicCommentFirst, NoFlags),
     TypistaInput(AffCombine, DicCombine, NoFlags)}

\* The word added (without flags, and with an empty list of flag groups) and
\* removed, and the spellings checked.
AcceptAdds == {<<w_ba, NullFlags>>, <<w_ba, FlagGroups(<<>>)>>}
AcceptWords == {w_ab, w_Ab, w_AB, w_aab, w_ba, w_space, w_empty}

AcceptInit ==
    /\ DamIdle /\ CmpIdle /\ BkIdle
    /\ TyNewState
    /\ input \in AcceptInputs
AcceptNext ==
    \/ TyNew
    \/ \E add \in AcceptAdds : TyAddWord(add[1], add[2])
    \/ TyRemoveWord(w_ba)
    \/ \E word \in AcceptWords : TyCheck(word)
    \/ \E word \in AcceptWords : TyCheckExact(word)
SpecAccept == AcceptInit /\ [][AcceptNext]_vars

\* The expression matches the word from its first to its last character.
RegExpMatchWhole(items, word) == Len(word) \in RegExpEnds(items, 1, word, {0})

\* C11: for a word that is not a key of the table and is at least COMPOUNDMIN
\* long, checkExact returns true exactly when some compound rule matches the
\* whole word; a word that only contains a match is rejected.
C11_CompoundMatchesWholeWord ==
    (/\ ret.op = "checkExact"
     /\ ~TableHas(dictionaryTable, ret.word)
     /\ ReachesCompoundMin(flags, ret.word))
        => ret.result
             = \E i \in 1..Len(compoundRules) :
                   RegExpMatchWhole(compoundRules[i], ret.word)

\* The keys of the table that differ from the word in letter case at most.
CaseVariants(word) ==
    {k \in 1..Len(dictionaryTable) :
        toLowerCase(dictionaryTable[k].word) = toLowerCase(word)}

\* C12: when a key w of the table carries the KEEPCASE flag, check(v) returns
\* false for every v that differs from w in letter case only and is neither a key
\* nor a compound match (no other key differs from v in letter case only).
C12_KeepCaseRejectsVariants ==
    (/\ ret.op = "check"
     /\ PlainWord(ret.word)
     /\ ~TableHas(dictionaryTable, ret.word)
     /\ NoCompoundMatch(ret.word)
     /\ CaseVariants(ret.word) # {}
     /\ \A k \in CaseVariants(ret.word) :
           hasFlag(dictionaryTable, flags, dictionaryTable[k].word, tKEEPCASE))
        => ret.result = Returned(FALSE)

\* C13: check(word) returns a boolean for every word and throws nothing, and it
\* returns false for the empty word and for a word of whitespace only, whatever
\* the keys of the table.
C13_CheckAlwaysReturns ==
    ret.op = "check" =>
        /\ ~ret.result.threw
        /\ trim(ret.word) = <<>> => ret.result = Returned(FALSE)

\* C14: the constructor parses every .aff text without an exception, a block
\* whose header counts more entry lines than the text holds included.
C14_ParseAffNeverThrows ==
    ret.op = "new" => ~parseAff(input.aff, input.flags).threw

\* The roots of the nodes of the tree.
TreeTerms(tree) == {tree.nodes[path] : path \in DOMAIN tree.nodes}

\* C15: once the BK-tree is built, every key of the dictionary table is the root
\* of a node of the tree, after any addWord, removeWord, initBkTree and suggest
\* calls.
C15_KeysInTree ==
    (pc = "ready" /\ bktree.built) =>
        \A k \in 1..Len(dictionaryTable) :
            dictionaryTable[k].word \in TreeTerms(bktree)

\* A word that was removed and then added again as a new key, after the tree was
\* built, is in the tree beside the keys the build picked up.
C15_Witness ==
    /\ pc = "ready"
    /\ ret.op = "addWord"
    /\ hist.before.tree.built
    /\ ~TableHas(hist.before.table, ret.word)
    /\ ret.word \in TreeTerms(hist.before.tree)
    /\ Len(dictionaryTable) >= 3
    /\ ret.word \in TreeTerms(bktree)
    /\ Cardinality(DOMAIN bktree.nodes) >= 3

\* C16: addWord(term) of a term that a node of the tree already holds leaves the
\* tree as it is, and no two nodes of a tree hold the same term.
C16_AddWordIdempotent ==
    bktree.built =>
        /\ \A term \in TreeTerms(bktree) : BkAddWord(bktree.nodes, term) = bktree.nodes
        /\ \A p, q \in DOMAIN bktree.nodes :
              bktree.nodes[p] = bktree.nodes[q] => p = q

\* C17: a key whose value is null and a key whose value is an empty list of flag
\* groups are both accepted by checkExact and by check, with and without the
\* ONLYINCOMPOUND flag configured.
C17_NullAndEmptyAccepted ==
    (/\ ret.op \in {"check", "checkExact"}
     /\ PlainWord(ret.word)
     /\ TableHas(dictionaryTable, ret.word)
     /\ TableGet(dictionaryTable, ret.word).groups = <<>>)
        => IF ret.op = "check" THEN ret.result = Returned(TRUE) ELSE ret.result

\* The lines of a .dic text that are neither empty nor tab-indented comments, and
\* the headword of a line: the text before the first slash.
DicContentLines(lines) == SelectSeq(lines, LAMBDA line : line # <<>> /\ line[1] # Tab)
Headword(line) ==
    IF Slash \in Range(line) THEN SubSeq(line, 1, IndexOf(line, <<Slash>>))
    ELSE trim(line)

\* C18: of the lines left after the comment lines are stripped, the first
\* non-empty one is the count and is not admitted as a word, every later one is
\* admitted as a headword, also when the text starts with blank or comment lines.
C18_FirstContentLineIsCount ==
    (ret.op = "new" /\ pc = "ready") =>
        LET content == DicContentLines(input.dic)
            headwords == {Headword(content[k]) : k \in 2..Len(content)}
        IN  /\ \A word \in headwords : TableHas(dictionaryTable, word)
            /\ (content # <<>> /\ Headword(content[1]) \notin headwords)
                  => ~TableHas(dictionaryTable, Headword(content[1]))

\* What one entry of a rule makes of a word, the forms the matching entries of a
\* rule make of it, and those forms together with the forms the continuation
\* classes of each entry make of its form, to any depth.
Affixed(word, rule, entry) ==
    IF rule.type = tSFX THEN EntryRemove(word, rule.type, entry) \o entry.add
    ELSE entry.add \o EntryRemove(word, rule.type, entry)
MatchingEntries(word, rule) ==
    {rule.entries[i] : i \in {n \in 1..Len(rule.entries) :
                                 EntryMatches(word, rule.type, rule.entries[n])}}
DirectForms(word, rule) == {Affixed(word, rule, entry) : entry \in MatchingEntries(word, rule)}
RECURSIVE ChainedForms(_, _, _)
ChainedForms(word, rule, rules) ==
    DirectForms(word, rule)
        \cup UNION {UNION {ChainedForms(Affixed(word, rule, entry), rules[class], rules) :
                             class \in Range(entry.continuationClasses) \cap DOMAIN rules} :
                       entry \in MatchingEntries(word, rule)}

\* The forms one line of the .dic text admits. Each rule of the line is applied
\* to the headword; a form of a combineable rule is given to each later
\* combineable rule of the other type, whose continuation classes are applied
\* (chained) or not.
LineForms(line, rules, fl, chained) ==
    LET parts == SplitOn(line, Slash, <<>>)
        word == parts[1]
        codes == parseRuleCodes(parts[2], fl)
        second(form, rule) ==
            IF chained THEN ChainedForms(form, rule, rules) ELSE DirectForms(form, rule)
        combined(j) ==
            UNION {UNION {second(form, rules[codes[k]]) :
                             k \in {n \in (j + 1)..Len(codes) :
                                       /\ codes[n] \in DOMAIN rules
                                       /\ rules[codes[n]].combineable
                                       /\ rules[codes[n]].type # rules[codes[j]].type}} :
                      form \in ChainedForms(word, rules[codes[j]], rules)}
        ofCode(j) ==
            ChainedForms(word, rules[codes[j]], rules)
                \cup (IF rules[codes[j]].combineable THEN combined(j) ELSE {})
    IN  IF Len(parts) = 1 THEN {trim(word)}
        ELSE {word} \cup UNION {ofCode(j) : j \in {n \in 1..Len(codes) :
                                                     codes[n] \in DOMAIN rules}}

\* The forms the lines after the first line of the .dic text admit.
DicForms(chained) ==
    LET aff == parseAff(input.aff, input.flags)
    IN  UNION {LineForms(input.dic[i], aff.rules, aff.flags, chained) :
                  i \in {n \in 2..Len(input.dic) :
                            input.dic[n] # <<>> /\ input.dic[n][1] # Tab}}

\* C19 (as amended): the keys of the table after construction are the headwords,
\* the forms of their rules, and, for a form of a combineable rule R and a later
\* combineable rule R' of the other type, all that R' makes of the form: the
\* results of its entries and what the continuation classes of those entries
\* make of these results. (No NEEDAFFIX flag is configured.)
C19_CombinationChainsContinuations ==
    (ret.op = "new" /\ pc = "ready" /\ ~HasFlagKey(flags, tNEEDAFFIX))
        => Range(TableWords(dictionaryTable)) = DicForms(TRUE)

\* A table holding a form that only a continuation class of the second rule of a
\* combination produces.
C19_Witness ==
    /\ ret.op = "new" /\ pc = "ready"
    /\ Range(TableWords(dictionaryTable)) = DicForms(TRUE)
    /\ DicForms(TRUE) \ DicForms(FALSE) # {}

\* C19 as the specification states it: the combination step admits only the
\* results of the entries of R', their continuation classes are not applied.
C19_CombinationIsDirectOnly ==
    (ret.op = "new" /\ pc = "ready" /\ ~HasFlagKey(flags, tNEEDAFFIX))
        => Range(TableWords(dictionaryTable)) = DicForms(FALSE)

\* C20: the sequence suggest returns holds no word twice.
C20_SuggestHasNoDuplicates ==
    ret.op = "suggest"
        => \A i, j \in 1..Len(ret.result) : ret.result[i] = ret.result[j] => i = j

\* Instances whose suggestions are checked: a plain dictionary, a dictionary
\* whose words carry the ONLYINCOMPOUND flag, and the compound parts; words are
\* added with no flags and with an empty list of flag groups, and removed.
OfferInputs ==
    {TypistaInput(EmptyAff, DicPlain, NoFlags),
     TypistaInput(EmptyAff, DicOnly, OnlyFlags),
     TypistaInput(AffCompound, DicParts, NoFlags)}
OfferArgs == {<<w_ab, NoOptions>>, <<w_ab, Options(Num(2), Absent)>>}
OfferInit ==
    /\ DamIdle /\ CmpIdle /\ BkIdle
    /\ TyNewState
    /\ input \in OfferInputs
OfferNext ==
    \/ TyNew
    \/ \E add \in AcceptAdds : TyAddWord(add[1], add[2])
    \/ TyRemoveWord(w_ba)
    \/ TyInitBkTree
    \/ \E args \in OfferArgs : TySuggest(args[1], args[2])
    \/ \E word \in {w_a, w_ab, w_ba} : TyCheckExact(word)
SpecOffer == OfferInit /\ [][OfferNext]_vars

\* C21: every word of a list that suggest returns is a word checkExact accepts.
C21_SuggestionsAreAccepted ==
    ret.op = "suggest"
        => \A i \in 1..Len(ret.result) :
              checkExact(dictionaryTable, flags, compoundRules, ret.result[i])

====
